---- MODULE Spec2Model ----
(***************************************************************************)
(* A model of pandas_ext/ios.py.  Every behaviour is one call into the     *)
(* module: path_incremented, chunks, export_chunks, read_csv,              *)
(* _identify_separator or read_file.  Strings are sequences of             *)
(* one-character strings.  The filesystem and the table library are the    *)
(* environment: the status of a path is resolved the first time the call   *)
(* touches it and is fixed from then on, and the outcome of a parse        *)
(* attempt is chosen when the attempt is made.                             *)
(***************************************************************************)
EXTENDS Integers, Sequences, FiniteSets, TLC

VARIABLES
    call,        \* the function called from outside: "none" before the call
    pc,          \* position of the call
    arg_p,       \* path_incremented: the argument p as passed
    p,           \* path_incremented: local p
    dirname,     \* path_incremented: local dirname
    error,       \* path_incremented: local error
    overwrite,   \* path_incremented / export_chunks: parameter overwrite
    iters,       \* path_incremented: executions of the loop body in this call
    ret,         \* path_incremented: returned path
    pre,         \* filesystem: paths found to exist before the call
    absent,      \* filesystem: paths found not to exist before the call
    disk,        \* filesystem: path -> chunk written by this call
    table,       \* chunks: the argument df
    gen,         \* chunks: generator frame [df, chunksize, at]
    yielded,     \* chunks: the chunks yielded so far, in order
    to_path,     \* export_chunks: local to_path
    paths,       \* export_chunks: local paths
    chunk,       \* export_chunks: loop variable chunk
    raised,      \* the exception that ended the call, NoError if none
    first_codec, \* read_csv: parameter first_codec
    codecs,      \* read_csv: local codecs
    attempts,    \* read_csv: the encoding of each pd.read_csv call made, in order
    failure,     \* read_csv: what the latest pd.read_csv call raised, NoError if nothing
    result,      \* read_csv / _identify_separator / read_file: returned value
    header,      \* _identify_separator: first line of the file
    file_ext,    \* _identify_separator / read_file: extension of the argument
    reader       \* read_file: the reader the call was delegated to

vars == <<call, pc, arg_p, p, dirname, error, overwrite, iters, ret, pre, absent,
          disk, table, gen, yielded, to_path, paths, chunk, raised, first_codec,
          codecs, attempts, failure, result, header, file_ext, reader>>

pathVars == <<arg_p, p, dirname, error, iters, ret>>
fsVars == <<pre, absent, disk>>
genVars == <<table, gen, yielded>>
exportVars == <<to_path, paths, chunk>>
csvVars == <<first_codec, codecs, attempts, failure>>
readVars == <<header, file_ext, reader>>

(***************************************************************************)
(* Bounds of the model.                                                    *)
(***************************************************************************)
MaxNameLen == 4      \* longest base name passed in
MaxFiles == 2        \* most files that exist before the call
MaxRows == 10        \* most rows of a table passed to chunks
MaxExportRows == 3   \* rows of the table passed to export_chunks
MaxHeaderLen == 3    \* longest first line passed to _identify_separator

(***************************************************************************)
(* Strings.                                                                *)
(***************************************************************************)
Max(a, b) == IF a >= b THEN a ELSE b

DigitChars == <<"0", "1", "2", "3", "4", "5", "6", "7", "8", "9">>

\* str.isdigit on one character
IsDigit(c) == \E i \in 1..10 : DigitChars[i] = c

DigitVal(c) == (CHOOSE i \in 1..10 : DigitChars[i] = c) - 1

\* int(val) for a non-empty string of digits
RECURSIVE StrToInt(_)
StrToInt(s) ==
    IF s = <<>> THEN 0
    ELSE StrToInt(SubSeq(s, 1, Len(s) - 1)) * 10 + DigitVal(s[Len(s)])

\* str(n) for n >= 0
RECURSIVE IntToStr(_)
IntToStr(n) ==
    IF n < 10 THEN <<DigitChars[n + 1]>>
    ELSE IntToStr(n \div 10) \o <<DigitChars[(n % 10) + 1]>>

\* s[-3:]
Last3(s) == SubSeq(s, Max(1, Len(s) - 2), Len(s))

\* ''.join(e for e in s if e.isdigit())
DigitsOf(s) == SelectSeq(s, IsDigit)

\* sub in s
Contains(s, sub) ==
    \E i \in 1..(Len(s) - Len(sub) + 1) : SubSeq(s, i, i + Len(sub) - 1) = sub

\* s.replace(old, new) for a non-empty old: every occurrence, left to right
RECURSIVE Replace(_, _, _)
Replace(s, old, new) ==
    IF Len(s) < Len(old) THEN s
    ELSE IF SubSeq(s, 1, Len(old)) = old
         THEN new \o Replace(SubSeq(s, Len(old) + 1, Len(s)), old, new)
         ELSE <<s[1]>> \o Replace(Tail(s), old, new)

UpperChars == <<"C", "S", "V", "T", "X", "L", "H", "G", "Z">>
LowerChars == <<"c", "s", "v", "t", "x", "l", "h", "g", "z">>

\* str.lower
Lower(s) ==
    [i \in 1..Len(s) |->
        IF \E k \in 1..Len(UpperChars) : UpperChars[k] = s[i]
        THEN LowerChars[CHOOSE k \in 1..Len(UpperChars) : UpperChars[k] = s[i]]
        ELSE s[i]]

(***************************************************************************)
(* os.path on POSIX paths.                                                 *)
(***************************************************************************)
\* s.rfind(c) + 1
RFind(s, c) ==
    IF \E i \in 1..Len(s) : s[i] = c
    THEN CHOOSE i \in 1..Len(s) : s[i] = c /\ \A j \in (i + 1)..Len(s) : s[j] # c
    ELSE 0

RECURSIVE RStripSlash(_)
RStripSlash(s) ==
    IF s # <<>> /\ s[Len(s)] = "/" THEN RStripSlash(SubSeq(s, 1, Len(s) - 1)) ELSE s

\* os.path.dirname
Dirname(q) ==
    LET head == SubSeq(q, 1, RFind(q, "/"))
    IN  IF head # <<>> /\ \E i \in 1..Len(head) : head[i] # "/"
        THEN RStripSlash(head)
        ELSE head

\* os.path.basename
Basename(q) == SubSeq(q, RFind(q, "/") + 1, Len(q))

\* os.path.splitext: <<root, ext>>; leading dots of the base name start no extension
Splitext(q) ==
    LET sepi == RFind(q, "/")
        doti == RFind(q, ".")
    IN  IF doti > sepi /\ \E k \in (sepi + 1)..(doti - 1) : q[k] # "."
        THEN <<SubSeq(q, 1, doti - 1), SubSeq(q, doti, Len(q))>>
        ELSE <<q, <<>>>>

\* os.path.join of two components
Join(a, b) ==
    IF b # <<>> /\ b[1] = "/" THEN b
    ELSE IF a = <<>> \/ a[Len(a)] = "/" THEN a \o b
    ELSE a \o <<"/">> \o b

(***************************************************************************)
(* path_incremented                                                        *)
(***************************************************************************)
ErrorLimit == 2500

\* the try/except of the loop body: the new name and the new error counter
IncrementName(name, err) ==
    LET val == DigitsOf(Last3(name))
    IN  IF val = <<>>
        THEN [name |-> name \o IntToStr(err), error |-> err + 1]
        ELSE LET count == StrToInt(val) + 1
                 replaced == Replace(name, val, IntToStr(count))
             IN  [name |-> IF ~Contains(replaced, IntToStr(count))
                           THEN replaced \o IntToStr(count)
                           ELSE replaced,
                  error |-> err]

\* one execution of the loop body up to the break test: the new p and error
LoopBody(q, dir, err) ==
    LET split == Splitext(Basename(q))
        inc == IncrementName(split[1], err)
    IN  [p |-> Join(dir, inc.name \o split[2]), error |-> inc.error]

\* ShouldBreak with the limit of the error counter mistyped
ShouldBreakLowLimit(ow, err) == ow = TRUE \/ err > 2

\* ShouldBreak without the test of overwrite
ShouldBreakIgnoresOverwrite(ow, err) == err > ErrorLimit

\* the break test that ends the loop body
ShouldBreak(ow, err) == ow = TRUE \/ err > ErrorLimit

\* os.path.exists(q) answers ex: known for a path the call has touched or written,
\* otherwise resolved now
Exists(q, ex) ==
    IF q \in pre \/ q \in DOMAIN disk THEN ex = TRUE /\ UNCHANGED <<pre, absent>>
    ELSE IF q \in absent THEN ex = FALSE /\ UNCHANGED <<pre, absent>>
    ELSE \/ ex = TRUE /\ Cardinality(pre) < MaxFiles
            /\ pre' = pre \cup {q} /\ absent' = absent
         \/ ex = FALSE /\ absent' = absent \cup {q} /\ pre' = pre

NameAlphabet == {"a", "0", "1"}
Names == UNION {[1..n -> NameAlphabet] : n \in 1..MaxNameLen}
\* a bare file name without extension, and a file with extension in a directory
Shapes == {[dir |-> <<>>, ext |-> <<>>],
           [dir |-> <<"d">>, ext |-> <<".", "c", "s", "v">>]}
Paths == {Join(sh.dir, n \o sh.ext) : sh \in Shapes, n \in Names}

\* lines 21-22: entry of path_incremented
EnterPathIncremented(q) ==
    /\ arg_p' = q
    /\ p' = q
    /\ dirname' = Dirname(q)
    /\ error' = 2
    /\ iters' = 0
    /\ ret' = <<>>

PathIncrementedCall ==
    /\ pc = "idle"
    /\ \E q \in Paths, ow \in BOOLEAN :
        /\ EnterPathIncremented(q)
        /\ overwrite' = ow
    /\ call' = "path_incremented"
    /\ pc' = "pi_loop"
    /\ UNCHANGED <<fsVars, genVars, exportVars, raised, csvVars, result, readVars>>

\* one test of the while condition, the loop body when it holds, and the return;
\* a call is followed for ErrorLimit + 1 executions of the loop body at most
PathIncrementedStep ==
    /\ pc = "pi_loop"
    /\ iters <= ErrorLimit
    /\ \E ex \in BOOLEAN :
        /\ Exists(p, ex)
        /\ IF ex
           THEN LET body == LoopBody(p, dirname, error)
                IN  /\ p' = body.p
                    /\ error' = body.error
                    /\ iters' = iters + 1
                    /\ IF ShouldBreak(overwrite, body.error)
                       THEN ret' = body.p /\ pc' = "pi_return"
                       ELSE UNCHANGED ret /\ pc' = "pi_loop"
           ELSE /\ ret' = p
                /\ pc' = "pi_return"
                /\ UNCHANGED <<p, error, iters>>
    /\ UNCHANGED <<call, arg_p, dirname, overwrite, disk, genVars, exportVars,
                   raised, csvVars, result, readVars>>

(***************************************************************************)
(* chunks                                                                  *)
(***************************************************************************)
\* df.iloc[a:b] for 0 <= a
Slice(df, a, b) == SubSeq(df, a + 1, IF b < Len(df) THEN b ELSE Len(df))

\* the test of line 176; chunksize None is <<>>, chunksize k is <<k>>
WholeTable(df, cs) == cs = <<>> \/ cs[1] <= 0 \/ cs[1] >= Len(df)

\* line 180
ChunkTake(df, cs) == Slice(df, 0, cs[1])

\* ChunkRest with the slice starting one row late
ChunkRestSkipsRow(df, cs) == Slice(df, cs[1] + 1, Len(df))

\* line 181
ChunkRest(df, cs) == Slice(df, cs[1], Len(df))

\* the generator resumed once: out is <<chunk>> on a yield, <<>> on StopIteration
GenNext(g) ==
    IF g.at = "start" /\ WholeTable(g.df, g.chunksize)
    THEN [out |-> <<g.df>>, g |-> [g EXCEPT !.at = "whole"]]
    ELSE IF g.at \in {"start", "loop"} /\ Len(g.df) > 0
    THEN [out |-> <<ChunkTake(g.df, g.chunksize)>>,
          g |-> [g EXCEPT !.df = ChunkRest(g.df, g.chunksize), !.at = "loop"]]
    ELSE [out |-> <<>>, g |-> [g EXCEPT !.at = "end"]]

Rows(n) == [i \in 1..n |-> i]

ChunkSizes(n) == {<<>>} \cup {<<k>> : k \in -1..(n + 1)}

ChunksCall ==
    /\ pc = "idle"
    /\ \E n \in 0..MaxRows, cs \in ChunkSizes(MaxRows) :
        /\ table' = Rows(n)
        /\ gen' = [df |-> Rows(n), chunksize |-> cs, at |-> "start"]
    /\ yielded' = <<>>
    /\ call' = "chunks"
    /\ pc' = "ch_iter"
    /\ UNCHANGED <<pathVars, overwrite, fsVars, exportVars, raised, csvVars,
                   result, readVars>>

\* the consumer asks the generator for its next chunk
ChunksNext ==
    /\ pc = "ch_iter"
    /\ LET r == GenNext(gen)
       IN  /\ gen' = r.g
           /\ IF r.out = <<>>
              THEN pc' = "ch_done" /\ UNCHANGED yielded
              ELSE pc' = "ch_iter" /\ yielded' = Append(yielded, r.out[1])
    /\ UNCHANGED <<call, table, pathVars, overwrite, fsVars, exportVars, raised,
                   csvVars, result, readVars>>

(***************************************************************************)
(* export and export_chunks                                                *)
(***************************************************************************)
DotXlsx == <<".", "x", "l", "s", "x">>
DotTxt == <<".", "t", "x", "t">>
DotCsv == <<".", "c", "s", "v">>

\* export: the writer chosen for to_path.  same is the outcome of `ext is '.xlsx'`,
\* an identity test of two strings, which can hold only when they are equal
ExportWriter(q, same) ==
    LET ext == Lower(Splitext(q)[2])
    IN  IF ext = DotXlsx /\ same THEN "to_excel"
        ELSE IF ext \in {DotTxt, DotCsv} THEN "to_csv"
        ELSE "NotImplementedError"

ExportShapes == {[dir |-> <<>>, ext |-> <<>>],
                 [dir |-> <<>>, ext |-> DotCsv],
                 [dir |-> <<"d">>, ext |-> DotXlsx]}
ExportPaths == {Join(sh.dir, n \o sh.ext) : sh \in ExportShapes, n \in Names}
ExportSizes == {<<>>} \cup {<<k>> : k \in 1..(MaxExportRows - 1)}

ExportChunksCall ==
    /\ pc = "idle"
    /\ \E q \in ExportPaths, ow \in BOOLEAN, cs \in ExportSizes :
        /\ to_path' = q
        /\ overwrite' = ow
        /\ gen' = [df |-> Rows(MaxExportRows), chunksize |-> cs, at |-> "start"]
    /\ table' = Rows(MaxExportRows)
    /\ yielded' = <<>>
    /\ paths' = <<>>
    /\ call' = "export_chunks"
    /\ pc' = "ex_next"
    /\ UNCHANGED <<pathVars, fsVars, chunk, raised, csvVars, result, readVars>>

\* line 223: the for statement takes the next chunk, or the loop ends and
\* line 228 returns paths
ExportChunksNext ==
    /\ pc = "ex_next"
    /\ LET r == GenNext(gen)
       IN  /\ gen' = r.g
           /\ IF r.out = <<>>
              THEN pc' = "ex_done" /\ UNCHANGED <<yielded, chunk>>
              ELSE /\ pc' = "ex_export"
                   /\ yielded' = Append(yielded, r.out[1])
                   /\ chunk' = r.out[1]
    /\ UNCHANGED <<call, table, pathVars, overwrite, fsVars, to_path, paths,
                   raised, csvVars, result, readVars>>

\* lines 224-226: export the chunk to to_path, record the path, enter
\* path_incremented(to_path, overwrite)
ExportChunk ==
    /\ pc = "ex_export"
    /\ \E same \in BOOLEAN :
        LET writer == ExportWriter(to_path, same)
        IN  IF writer = "NotImplementedError"
            THEN /\ raised' = [type |-> "NotImplementedError",
                                 msg |-> <<"Not", "sure", "how", "to", "export">>]
                 /\ pc' = "ex_raised"
                 /\ UNCHANGED <<pathVars, fsVars, paths>>
            ELSE /\ \E ex \in BOOLEAN : Exists(to_path, ex)
                 /\ disk' = [q \in DOMAIN disk \cup {to_path} |->
                                IF q = to_path THEN chunk ELSE disk[q]]
                 /\ paths' = Append(paths, to_path)
                 /\ EnterPathIncremented(to_path)
                 /\ pc' = "pi_loop"
                 /\ UNCHANGED raised
    /\ UNCHANGED <<call, overwrite, genVars, to_path, chunk, csvVars, result, readVars>>

\* line 226: the returned path becomes to_path
ExportChunksAssign ==
    /\ pc = "pi_return"
    /\ call = "export_chunks"
    /\ to_path' = ret
    /\ pc' = "ex_next"
    /\ UNCHANGED <<call, pathVars, overwrite, fsVars, genVars, paths, chunk,
                   raised, csvVars, result, readVars>>

(***************************************************************************)
(* read_csv                                                                *)
(***************************************************************************)
CODECS == <<"utf8", "iso-8859-1", "ascii", "utf-16", "utf-32">>

Range(f) == {f[i] : i \in DOMAIN f}

\* list(S): the elements of a set, each once, in an order the language leaves open
ListsOf(S) ==
    {l \in [1..Cardinality(S) -> S] : \A i, j \in DOMAIN l : l[i] = l[j] => i = j}

\* line 50: list(set([first_codec] + CODECS))
CodecLists(first) == ListsOf(Range(<<first>> \o CODECS))

NoError == [type |-> "none", msg |-> <<>>]

\* what pd.read_csv can raise; a message is its sequence of words
ParseErrors ==
    [type : {"UnicodeError", "UnicodeDecodeError", "UnboundLocalError"},
     msg : {<<"cannot", "decode">>}]
    \cup [type : {"ParserError", "KeyboardInterrupt"},
          msg : {<<"Error", "tokenizing", "data">>, <<"out", "of", "memory">>}]

\* the classes derived from Exception among the modelled ones
IsException(e) == e.type # "KeyboardInterrupt"

\* 'tokenizing' in str(e)
MentionsTokenizing(e) == "tokenizing" \in Range(e.msg)

\* Suppressed without the second handler's test of the message
SuppressedFirstHandlerOnly(e) ==
    e.type \in {"UnicodeError", "UnicodeDecodeError", "UnboundLocalError"}

\* lines 56-65: whether the handlers swallow e, so that the for loop goes on
Suppressed(e) ==
    \/ e.type \in {"UnicodeError", "UnicodeDecodeError", "UnboundLocalError"}
    \/ IsException(e) /\ MentionsTokenizing(e)

FirstCodecs == {"utf8", "utf-16", "cp1252"}

\* the file_path argument, as it appears in messages
CsvFile == "f.csv"

\* lines 46-50
ReadCsvCall ==
    /\ pc = "idle"
    /\ call' = "read_csv"
    /\ \E first \in FirstCodecs, isDataFrame \in BOOLEAN :
        /\ first_codec' = first
        /\ IF isDataFrame
           THEN /\ result' = "DataFrame argument"
                /\ pc' = "rc_done"
                /\ UNCHANGED codecs
           ELSE /\ \E l \in CodecLists(first) : codecs' = l
                /\ pc' = "rc_loop"
                /\ UNCHANGED result
    /\ attempts' = <<>>
    /\ failure' = NoError
    /\ UNCHANGED <<pathVars, overwrite, fsVars, genVars, exportVars, raised, readVars>>

\* lines 52-66: one pass of the for loop, and the raise after its last pass
ReadCsvAttempt ==
    /\ pc = "rc_loop"
    /\ attempts' = Append(attempts, codecs[Len(attempts) + 1])
    /\ \/ /\ failure' = NoError
          /\ result' = "parsed table"
          /\ pc' = "rc_done"
          /\ UNCHANGED raised
       \/ \E e \in ParseErrors :
            /\ failure' = e
            /\ IF ~Suppressed(e)
               THEN raised' = e /\ pc' = "rc_raised"
               ELSE IF Len(attempts) + 1 = Len(codecs)
               THEN /\ raised' = [type |-> "IOError",
                                  msg |-> <<"Failed", "to", "open", CsvFile>>]
                    /\ pc' = "rc_raised"
               ELSE UNCHANGED raised /\ pc' = "rc_loop"
            /\ UNCHANGED result
    /\ UNCHANGED <<call, first_codec, codecs, pathVars, overwrite, fsVars, genVars,
                   exportVars, readVars>>

(***************************************************************************)
(* _identify_separator                                                     *)
(***************************************************************************)
maybe_seps == <<"|", ";", ",", "\t", ":">>

\* _count for an item of one character, which every candidate is
Count(item, string) ==
    LET Same(x) == x = item
    IN  Len(SelectSeq(string, Same))

\* MaxFrom with a later key of equal value replacing the best so far
RECURSIVE MaxFromLast(_, _, _, _)
MaxFromLast(keys, string, i, best) ==
    IF i > Len(keys) THEN best
    ELSE MaxFromLast(keys, string, i + 1,
                     IF Count(keys[i], string) >= Count(best, string)
                     THEN keys[i] ELSE best)

\* max(keys, key=...): the first of the keys whose value no later key exceeds
RECURSIVE MaxFrom(_, _, _, _)
MaxFrom(keys, string, i, best) ==
    IF i > Len(keys) THEN best
    ELSE MaxFrom(keys, string, i + 1,
                 IF Count(keys[i], string) > Count(best, string)
                 THEN keys[i] ELSE best)

\* lines 95-105: the separator, or "" when the IOError is raised
Separator(string) ==
    LET Present(sep) == Count(sep, string) > 0
        found == SelectSeq(maybe_seps, Present)
    IN  IF found # <<>> THEN MaxFrom(found, string, 2, found[1]) ELSE ""

HeaderAlphabet == Range(maybe_seps) \cup {"x"}
Headers == UNION {[1..n -> HeaderAlphabet] : n \in 1..MaxHeaderLen}
SeparatorExts == {DotCsv, DotTxt, <<".", "t", "s", "v">>, <<".", "T", "X", "T">>}

\* the whole of _identify_separator; lines is the file's lines, of which only the
\* first is read
IdentifySeparator ==
    /\ pc = "idle"
    /\ call' = "_identify_separator"
    /\ \E e \in SeparatorExts, lines \in {<<>>} \cup {<<h>> : h \in Headers} :
        /\ file_ext' = e
        /\ IF Lower(e) \notin {DotCsv, DotTxt}
           THEN /\ raised' = [type |-> "AssertionError", msg |-> <<"Unexpected", "file", "extension">>]
                /\ pc' = "is_raised"
                /\ UNCHANGED <<header, result>>
           ELSE IF lines = <<>>
           THEN /\ raised' = [type |-> "StopIteration", msg |-> <<>>]
                /\ pc' = "is_raised"
                /\ UNCHANGED <<header, result>>
           ELSE /\ header' = lines[1]
                /\ IF Separator(lines[1]) = ""
                   THEN /\ raised' = [type |-> "IOError",
                                      msg |-> <<"Unable", "to", "identify", "value", "separator.">>]
                        /\ pc' = "is_raised"
                        /\ UNCHANGED result
                   ELSE /\ result' = Separator(lines[1])
                        /\ pc' = "is_done"
                        /\ UNCHANGED raised
    /\ UNCHANGED <<pathVars, overwrite, fsVars, genVars, exportVars, csvVars, reader>>

(***************************************************************************)
(* read_file                                                               *)
(***************************************************************************)
DotH5 == <<".", "h", "5">>

\* lines 148-162: the reader chosen for a lowercased extension
Dispatch(ext) ==
    IF ext \in {DotXlsx, <<".", "x", "l", "s">>} THEN "pd.read_excel"
    ELSE IF ext \in {DotTxt, <<".", "t", "s", "v">>, DotCsv} THEN "read_text"
    ELSE IF ext \in {<<".", "g", "z">>, <<".", "b", "z", "2">>, <<".", "z", "i", "p">>,
                     <<"x", "z">>} THEN "read_csv"
    ELSE IF Contains(DotH5, ext) THEN "pd.read_hdf"
    ELSE "NotImplementedError"

ReadExts ==
    {DotXlsx, <<".", "x", "l", "s">>, DotTxt, <<".", "t", "s", "v">>, DotCsv,
     <<".", "g", "z">>, <<".", "b", "z", "2">>, <<".", "z", "i", "p">>,
     <<".", "x", "z">>, DotH5, <<>>, <<".">>, <<".", "h">>, <<".", "h", "5", "x">>,
     <<".", "j", "s", "o", "n">>, <<".", "X", "L", "S", "X">>, <<".", "C", "S", "V">>,
     <<".", "G", "Z">>, <<".", "X", "Z">>, <<".", "H", "5">>}

\* the whole of read_file
ReadFile ==
    /\ pc = "idle"
    /\ call' = "read_file"
    /\ \E e \in ReadExts, isDataFrame \in BOOLEAN :
        /\ file_ext' = e
        /\ IF isDataFrame
           THEN /\ result' = "DataFrame argument"
                /\ pc' = "rf_done"
                /\ UNCHANGED <<reader, raised>>
           ELSE LET ext == Lower(Splitext(<<"f">> \o e)[2])
                IN  IF Dispatch(ext) = "NotImplementedError"
                    THEN /\ raised' = [type |-> "NotImplementedError",
                                       msg |-> <<"Unable", "to", "read", "files">>]
                         /\ pc' = "rf_raised"
                         /\ UNCHANGED <<reader, result>>
                    ELSE /\ reader' = Dispatch(ext)
                         /\ result' = "table of the reader"
                         /\ pc' = "rf_done"
                         /\ UNCHANGED raised
    /\ UNCHANGED <<pathVars, overwrite, fsVars, genVars, exportVars, csvVars, header>>

Init ==
    /\ call = "none"
    /\ pc = "idle"
    /\ arg_p = <<>> /\ p = <<>> /\ dirname = <<>> /\ error = 2
    /\ overwrite = FALSE /\ iters = 0 /\ ret = <<>>
    /\ pre = {} /\ absent = {} /\ disk = <<>>
    /\ table = <<>> /\ gen = [df |-> <<>>, chunksize |-> <<>>, at |-> "end"]
    /\ yielded = <<>>
    /\ to_path = <<>> /\ paths = <<>> /\ chunk = <<>>
    /\ raised = NoError
    /\ first_codec = "" /\ codecs = <<>> /\ attempts = <<>> /\ failure = NoError
    /\ result = "none"
    /\ header = <<>> /\ file_ext = <<>> /\ reader = "none"

Next ==
    \/ PathIncrementedCall
    \/ PathIncrementedStep
    \/ ChunksCall
    \/ ChunksNext
    \/ ExportChunksCall
    \/ ExportChunksNext
    \/ ExportChunk
    \/ ExportChunksAssign
    \/ ReadCsvCall
    \/ ReadCsvAttempt
    \/ IdentifySeparator
    \/ ReadFile

Spec == Init /\ [][Next]_vars
(***************************************************************************)
(* Properties.                                                             *)
(***************************************************************************)
Exist == pre \cup DOMAIN disk

IsPrefix(s, t) == Len(s) <= Len(t) /\ SubSeq(t, 1, Len(s)) = s

RECURSIVE Concat(_)
Concat(ss) == IF ss = <<>> THEN <<>> ELSE ss[1] \o Concat(Tail(ss))

\* the digits that end s
RECURSIVE TrailingDigits(_)
TrailingDigits(s) ==
    IF s # <<>> /\ IsDigit(s[Len(s)])
    THEN TrailingDigits(SubSeq(s, 1, Len(s) - 1)) \o <<s[Len(s)]>>
    ELSE <<>>

\* q with the digits d that end its base name replaced by d + 1
TrailingRunBumped(q) ==
    LET ext == Splitext(Basename(q))[2]
        run == TrailingDigits(Splitext(Basename(q))[1])
    IN  SubSeq(q, 1, Len(q) - Len(ext) - Len(run)) \o IntToStr(StrToInt(run) + 1) \o ext

\* C1: path_incremented(p, overwrite=True) on an existing p whose base name ends
\* in a run of one to three digits d executes the loop body once and returns p
\* with that run, and nothing else, replaced by d + 1.
C1_TrailingRunReplaced ==
    (/\ call = "path_incremented" /\ pc = "pi_return" /\ overwrite
     /\ arg_p \in pre
     /\ Len(TrailingDigits(Splitext(Basename(arg_p))[1])) \in 1..3)
    => (iters = 1 /\ ret = TrailingRunBumped(arg_p))

\* C2: whenever path_incremented(p, overwrite=False) returns, the returned path
\* has been found not to exist and has not been written since; it is p when p
\* does not exist and another path when p exists.
C2_ReturnedPathIsFree ==
    (pc = "pi_return" /\ ~overwrite)
    => /\ ret \in absent /\ ret \notin Exist
       /\ arg_p \notin Exist => ret = arg_p
       /\ arg_p \in Exist => ret # arg_p

\* C2 happens: a call with overwrite=False has returned after two or more
\* executions of the loop body.
C2_Witness ==
    /\ call = "path_incremented" /\ pc = "pi_return" /\ ~overwrite
    /\ arg_p \in pre /\ iters >= 2 /\ ret \in absent

\* C3: path_incremented(p, overwrite=False) executes its loop body at most 2500
\* times, whatever the path and the files that exist.
C3_AtMost2500Attempts == ~overwrite => iters <= ErrorLimit

\* C4: the chunks yielded, concatenated in order, are the table; a chunksize of
\* None, <= 0 or >= n yields the table as the only chunk; otherwise every chunk
\* but the last has chunksize rows and the last between 1 and chunksize; the
\* number of chunks yielded never exceeds max(1, n).
C4_ChunksPartition ==
    call = "chunks" =>
        /\ IsPrefix(Concat(yielded), table)
        /\ Len(yielded) <= Max(1, Len(table))
        /\ pc = "ch_done" =>
            /\ Concat(yielded) = table
            /\ IF \/ gen.chunksize = <<>>
                  \/ gen.chunksize[1] <= 0
                  \/ gen.chunksize[1] >= Len(table)
               THEN yielded = <<table>>
               ELSE /\ \A i \in 1..(Len(yielded) - 1) :
                            Len(yielded[i]) = gen.chunksize[1]
                    /\ Len(yielded[Len(yielded)]) \in 1..gen.chunksize[1]

\* C4 happens: ten rows in chunks of three came out as 3, 3, 3 and 1 rows.
C4_Witness ==
    /\ call = "chunks" /\ pc = "ch_done"
    /\ Len(table) = 10 /\ gen.chunksize = <<3>>
    /\ [i \in 1..Len(yielded) |-> Len(yielded[i])] = <<3, 3, 3, 1>>

\* first_codec, then the encodings of CODECS other than it, in the order of CODECS
ClaimedOrder(first) ==
    LET Other(c) == c # first
    IN  <<first>> \o SelectSeq(CODECS, Other)

\* C5: the encodings read_csv attempts are, in order, first_codec and then the
\* rest of utf8, iso-8859-1, ascii, utf-16, utf-32, none of them twice.
C5_AttemptsInDeclaredOrder ==
    call = "read_csv" =>
        /\ IsPrefix(attempts, ClaimedOrder(first_codec))
        /\ \A i, j \in 1..Len(attempts) : attempts[i] = attempts[j] => i = j

\* the state read_csv is in after its latest parse attempt, when the errors that
\* lead to the next candidate are those satisfying Swallowed
AfterAttempt(Swallowed(_)) ==
    IF failure = NoError
    THEN pc = "rc_done" /\ result = "parsed table" /\ raised = NoError
    ELSE IF Swallowed(failure)
    THEN IF Len(attempts) < Len(codecs)
         THEN pc = "rc_loop" /\ raised = NoError
         ELSE /\ pc = "rc_raised" /\ raised.type = "IOError"
              /\ CsvFile \in Range(raised.msg)
    ELSE pc = "rc_raised" /\ raised = failure

\* C6: after a parse attempt that failed with a decoding error or with an error
\* whose message mentions 'tokenizing' the next candidate is attempted, or the
\* call fails with an IOError naming the file when no candidate is left; after
\* any other error the call ends with that error; after a success the call ends
\* with the table.
C6_DecodingOrTokenizingOnly ==
    LET Swallowed(e) ==
            \/ e.type \in {"UnicodeError", "UnicodeDecodeError"}
            \/ "tokenizing" \in Range(e.msg)
    IN  (call = "read_csv" /\ attempts # <<>>) => AfterAttempt(Swallowed)

\* C6 as amended: the errors that lead to the next candidate are UnicodeError,
\* UnicodeDecodeError, UnboundLocalError, and any other error derived from
\* Exception whose message mentions 'tokenizing'; the attempts made are the
\* candidates in their order.
C6_SwallowedErrors ==
    LET Swallowed(e) ==
            \/ e.type \in {"UnicodeError", "UnicodeDecodeError", "UnboundLocalError"}
            \/ e.type # "KeyboardInterrupt" /\ "tokenizing" \in Range(e.msg)
    IN  (call = "read_csv" /\ attempts # <<>>) =>
            /\ AfterAttempt(Swallowed)
            /\ IsPrefix(attempts, codecs)

\* C6 happens: every candidate failed, the last after an earlier tokenizing
\* failure had led to it, and the call failed with the IOError.
C6_Witness ==
    /\ call = "read_csv" /\ pc = "rc_raised" /\ raised.type = "IOError"
    /\ Len(attempts) = Len(codecs) /\ Len(codecs) = 6
    /\ failure.type = "ParserError"

\* occurrences of the character c in the string h
Occ(c, h) == Cardinality({i \in 1..Len(h) : h[i] = c})

\* C7: for the first line of a file with an accepted extension the result is the
\* candidate with the most occurrences, the earliest declared among equals, and
\* the IOError is raised exactly when no candidate occurs.
C7_FirstMostFrequent ==
    (call = "_identify_separator" /\ raised.type \notin {"AssertionError", "StopIteration"})
    => IF \A k \in 1..Len(maybe_seps) : Occ(maybe_seps[k], header) = 0
       THEN pc = "is_raised" /\ raised.type = "IOError"
       ELSE /\ pc = "is_done" /\ raised = NoError
            /\ \E k \in 1..Len(maybe_seps) :
                /\ result = maybe_seps[k]
                /\ \A j \in 1..Len(maybe_seps) :
                       Occ(maybe_seps[j], header) <= Occ(maybe_seps[k], header)
                /\ \A j \in 1..(k - 1) :
                       Occ(maybe_seps[j], header) < Occ(maybe_seps[k], header)

\* C7 happens: ',' and ';' occur once each, ',' first in the line, and ';',
\* declared before ',', is the result.
C7_Witness ==
    /\ call = "_identify_separator" /\ pc = "is_done"
    /\ header = <<",", "x", ";">> /\ result = ";"

\* the reader C8 names for a lowercased extension
ClaimedReader(ext) ==
    IF ext \in {DotXlsx, <<".", "x", "l", "s">>} THEN "pd.read_excel"
    ELSE IF ext \in {DotTxt, <<".", "t", "s", "v">>, DotCsv} THEN "read_text"
    ELSE IF ext \in {<<".", "g", "z">>, <<".", "b", "z", "2">>, <<".", "z", "i", "p">>,
                     <<".", "x", "z">>} THEN "read_csv"
    ELSE IF ext = DotH5 THEN "pd.read_hdf"
    ELSE "NotImplementedError"

\* C8: read_file on a path goes by the lowercased extension to the spreadsheet
\* reader, read_text, read_csv (.gz, .bz2, .zip, .xz) or the HDF reader, and for
\* every other extension, the empty one included, raises NotImplementedError
\* and calls no reader.
C8_DispatchTable ==
    (call = "read_file" /\ result # "DataFrame argument")
    => IF ClaimedReader(Lower(file_ext)) = "NotImplementedError"
       THEN reader = "none" /\ raised.type = "NotImplementedError"
       ELSE reader = ClaimedReader(Lower(file_ext)) /\ raised = NoError

\* every chunk yielded is the content of some file written by the call
DiskHoldsAllChunks == \A i \in 1..Len(yielded) : \E q \in DOMAIN disk : disk[q] = yielded[i]

\* C9: export_chunks with overwrite=True on a table of two or more chunks writes
\* every chunk after the first over the file of the chunk before it, and the
\* files it leaves do not hold all chunks.
C9_LaterChunksOverwrite ==
    (call = "export_chunks" /\ pc = "ex_done" /\ overwrite /\ Len(yielded) >= 2)
    => /\ \A i \in 2..Len(paths) : paths[i] = paths[i - 1]
       /\ ~DiskHoldsAllChunks

\* the path one execution of the loop body of path_incremented makes of q
OneIncrement(q) == LoopBody(q, Dirname(q), 2).p

\* C9 as amended: with overwrite=True every chunk written after the first goes
\* to the path that one increment makes of the path of the chunk before it,
\* whether or not a file exists there; and when the call returns with the paths
\* pairwise distinct, each file holds its chunk.
C9_OneIncrementPerChunk ==
    (call = "export_chunks" /\ overwrite)
    => /\ \A i \in 2..Len(paths) : paths[i] = OneIncrement(paths[i - 1])
       /\ (pc = "ex_done" /\ \A i, j \in 1..Len(paths) : paths[i] = paths[j] => i = j)
          => /\ Len(paths) = Len(yielded)
             /\ \A i \in 1..Len(paths) : disk[paths[i]] = yielded[i]

\* C9 happens: a call with overwrite=True returned after writing its second
\* chunk to a path other than the first's, where a file existed before the call.
C9_Witness ==
    /\ call = "export_chunks" /\ pc = "ex_done" /\ overwrite
    /\ Len(paths) >= 2 /\ paths[2] # paths[1] /\ paths[2] \in pre
    /\ DiskHoldsAllChunks

\* C10: export_chunks with overwrite=False writes no chunk to a path that
\* existed before the call or that an earlier chunk of the call was written to.
C10_NoChunkOverwritesWithoutOverwrite ==
    (call = "export_chunks" /\ ~overwrite)
    => \A i \in 1..Len(paths) :
          /\ paths[i] \notin pre
          /\ \A j \in 1..(i - 1) : paths[j] # paths[i]
====
